---- MODULE Spec2Model ----
(***************************************************************************)
(* Tour-date bot: the scheduled / manual tour check (Bot.checkTours), the  *)
(* API scraper it fetches with, the Supabase-backed store it reads and     *)
(* upserts, and the channel it announces to.  One run of checkTours is a   *)
(* sequence of steps separated by its awaits; several runs may be in       *)
(* flight at once because nothing in the code serialises them.             *)
(***************************************************************************)
EXTENDS Integers, Sequences, FiniteSets, TLC

\* ------------------------------------------------------------- bounds
MaxRuns == 2        \* checkTours executions that can be in flight together
MaxListing == 2     \* records in one source listing
MaxId == 2          \* ids 1..MaxId of the tour events of the API
MaxRows == 4        \* rows the concerts table can take
MaxDay == 1         \* calendar days 1..MaxDay
MaxFetched == 3     \* tour events in a response the filter is reached with
MaxKnown == 1       \* tour events whose concerts the table holds at the filter

\* ------------------------------------------------------------- data
Ids == 1 .. MaxId
Venues == {"Fillmore", "9:30 Club"}
Days == 1 .. MaxDay

\* A date string "YYYY-MM-DDThh:00+off"; a date-only string has hour 0, off 0.
DateStrs == [day : Days, hour : {0}, off : {0}]

\* An element of `included` of the API response with type 'tour-events' and
\* attributes: its id, attributes['venue-name'], attributes['starts-at-short'].
TourEvent == [id : Ids, venue : Venues, date : DateStrs]

HoursPerDay == 24

\* new Date(s).getTime(), in hours since the epoch.
GetTime(s) == s.day * HoursPerDay + s.hour - s.off

\* getUTCFullYear / getUTCMonth / getUTCDate of a date: its UTC calendar day.
UTCDay(s) == GetTime(s) \div HoursPerDay

\* A date string new Date() cannot read (missing, empty, "TBA"): Invalid Date,
\* whose getTime() and getUTC*() are NaN.
InvalidDate == [day |-> 0, hour |-> 0, off |-> 0]
IsNaN(s) == s = InvalidDate

\* The attributes of a tour event as the API may serve them, which the
\* scraper copies unchecked: the venue is whatever text the source carries
\* (undefined when the event has no venue-name), the date string may carry a
\* time of day and an offset, or be unreadable.  No record the scraper
\* returns has an id.
NoId == 0
NoVenue == "(undefined)"
ScrapedVenues == Venues \cup {" fillmore", NoVenue}
ScrapedDates ==
    {[day |-> 1, hour |-> 0, off |-> 0],     \* "01"            UTC day 1, 00:00
     [day |-> 1, hour |-> 20, off |-> 0],    \* "01T20:00Z"     UTC day 1, 20:00
     [day |-> 2, hour |-> 1, off |-> 5],     \* "02T01:00+05"   UTC day 1, 20:00
     [day |-> 2, hour |-> 0, off |-> 0],     \* "02"            UTC day 2, 00:00
     InvalidDate}

\* An element of `included` with any of these attributes, under its id.
ListedEvent == [id : Ids, venue : ScrapedVenues, date : ScrapedDates]

NoChannel == ""
ChannelIds == {"c1"}

\* statusMessage of checkTours.
EmptyMsg == [kind |-> "empty", n |-> 0]
NoneMsg == [kind |-> "none", n |-> 0]
ErrorMsg == [kind |-> "error", n |-> 0]
FoundMsg(k) == [kind |-> "found", n |-> k]

RECURSIVE SeqsUpTo(_, _)
SeqsUpTo(S, n) ==
    IF n = 0 THEN {<<>>}
    ELSE LET shorter == SeqsUpTo(S, n - 1)
         IN  shorter \cup {Append(s, e) : s \in {t \in shorter : Len(t) = n - 1}, e \in S}

\* Listings the source can serve: the tour events of `included`, in the
\* order of the response; nothing keeps an event from being listed twice.
Listings == SeqsUpTo(TourEvent, MaxListing)

\* The Concert shape the scraper returns and checkTours, saveConcerts and
\* postConcerts consume: { venue, location, date }, with no id.
Concert == [id : {NoId}, venue : Venues, date : DateStrs]

Range(s) == {s[i] : i \in 1 .. Len(s)}

RECURSIVE SetsUpTo(_, _)
SetsUpTo(S, n) ==
    IF n = 0 THEN {{}}
    ELSE LET smaller == SetsUpTo(S, n - 1)
         IN  smaller \cup {T \cup {e} : T \in smaller, e \in S}

\* The responses the filter of checkTours can be reached with, and the tour
\* events whose concerts earlier runs can have saved by then.
IncludedArrays == SeqsUpTo(ListedEvent, MaxFetched)
EarlierEvents == SetsUpTo(ListedEvent, MaxKnown)

\* ------------------------------------------------------------- state
VARIABLES
    source,      \* the listing the remote source currently serves
    store,       \* rows of the concerts table, in the order they were inserted
    runs,        \* the checkTours executions, by slot
    announced,   \* the concerts checkTours has announced to the channel
    proc,        \* the process: "running" or "exit1"
    last,        \* what the latest finished run did, while the source stays as that
                 \* run saw it and no other run has overlapped
    rec,         \* one evaluation of the filter-and-sort of checkTours: the
                 \* tour events of the response and those saved earlier, the
                 \* scrapedConcerts / savedConcerts made of them, the result
    cmd,         \* the slash-command interaction that arrived last, with the
                 \* interactions that arrived before it
    http,        \* the latest response of the internal HTTP server to /scrape-job
    scraper,     \* a Scraper with an explicit initialize(), its browsers and the
                 \* calls of its methods that are in flight
    old          \* the interaction-based Bot with its lazily initialising Scraper
                 \* and the checkTours calls that are in flight
vars == <<source, store, runs, announced, proc, last, rec, cmd, http, scraper, old>>

Slots == 1 .. MaxRuns

IdleRun ==
    [pc |-> "idle", trigger |-> "none", channelId |-> NoChannel,
     body |-> <<>>, scraped |-> <<>>, new |-> <<>>, idx |-> 0, status |-> EmptyMsg,
     fetchFailed |-> FALSE, loadFailed |-> FALSE, saveFailed |-> FALSE,
     peerPosted |-> {}, clean |-> TRUE]

NoLast == [outcome |-> "empty", faulty |-> FALSE, unposted |-> {}, reported |-> "n/a"]

\* The concerts a run has announced so far: idx - 1 sends have succeeded.
Posted(run) == {run.new[i] : i \in 1 .. (run.idx - 1)}

\* The run's saveConcerts has completed without throwing.
Saved(run) ==
    \/ run.pc \in {"channel", "post"}
    \/ run.pc \in {"finally", "status"} /\ run.new # <<>> /\ ~run.saveFailed

InFlight == {r \in Slots : runs[r].pc # "idle"}

\* ------------------------------------------------------------- scraper
\* The callback of tourEvents.map: date, venue and location of the event;
\* the id of the event is not copied.
ToConcert(event) == [id |-> NoId, venue |-> event.venue, date |-> event.date]

\* Scraper.scrapeTourDates (API mode): every failure is caught and yields [].
ScrapeTourDates(ok, listing) ==
    IF ok THEN [i \in 1 .. Len(listing) |-> ToConcert(listing[i])] ELSE <<>>

\* ------------------------------------------------------------- store
\* DatabaseService.getConcerts: a query error is logged and yields [].
GetConcerts(ok, rows) == IF ok THEN rows ELSE <<>>

\* The row of a table that record c conflicts with on the id column, or 0:
\* a record without an id (a null id) conflicts with no row.
ConflictingRow(rows, c) ==
    IF c.id # NoId /\ \E i \in 1 .. Len(rows) : rows[i].id = c.id
    THEN CHOOSE i \in 1 .. Len(rows) : rows[i].id = c.id
    ELSE 0

\* The value getConcerts returns for a column the saved record left out.
NullVenue == "(null)"

\* A record of saveConcerts as the table holds it and getConcerts returns
\* it: the records travel as JSON, which drops a key whose value is
\* undefined, and the column of the row is then null.  A text is stored as
\* it is.  (A date left out is null in the same way; new Date(null) is a
\* day no scraped date of the model falls on, so such a row matches nothing
\* by its date, as a row with an unreadable date does.)
Record(c) == [c EXCEPT !.venue = IF @ = NoVenue THEN NullVenue ELSE @]

RECURSIVE Upsert(_, _)
\* upsert(records, { onConflict: 'id' }): a record whose id is the id of a
\* row replaces that row, every other record becomes a new row.
Upsert(rows, recs) ==
    IF recs = <<>> THEN rows
    ELSE LET c == Record(Head(recs))
             i == ConflictingRow(rows, c)
         IN  Upsert(IF i = 0 THEN Append(rows, c) ELSE [rows EXCEPT ![i] = c],
                    Tail(recs))

\* saveConcerts replacing the table by the batch.
SaveConcertsReplacesTable(ok, rows, concerts) ==
    [rows |-> IF ok THEN concerts ELSE rows, threw |-> ~ok]

\* saveConcerts as the older DatabaseService has it: an insert error is only logged.
SaveConcertsLogsOnly(ok, rows, concerts) ==
    [rows |-> IF ok THEN Upsert(rows, concerts) ELSE rows, threw |-> FALSE]

\* DatabaseService.saveConcerts: the rows after the upsert, and whether the
\* call threw (an upsert error is rethrown as "Failed to save concerts").
SaveConcerts(ok, rows, concerts) ==
    [rows |-> IF ok THEN Upsert(rows, concerts) ELSE rows, threw |-> ~ok]

\* ------------------------------------------------------------- reconcile
\* A predicate that takes every saved concert as a match.
SavedMatchesAny(saved, sc) == TRUE

\* The predicate of savedConcerts.some(...) in checkTours.
\* (NaN === NaN is false: an Invalid Date matches nothing.)
SavedMatches(saved, sc) ==
    /\ saved.venue = sc.venue
    /\ ~IsNaN(saved.date) /\ ~IsNaN(sc.date)
    /\ UTCDay(saved.date) = UTCDay(sc.date)

\* scrapedConcerts.filter(sc => !savedConcerts.some(...)), savedConcerts
\* given as the set of its elements.
NewConcerts(scraped, savedConcerts) ==
    SelectSeq(scraped, LAMBDA sc : ~(\E saved \in savedConcerts : SavedMatches(saved, sc)))

\* The comparator of the sort; the sort takes a NaN result as +0.
CompareByDate(a, b) ==
    IF IsNaN(a.date) \/ IsNaN(b.date) THEN 0 ELSE GetTime(a.date) - GetTime(b.date)

\* Array.prototype.sort as the engine of the process (V8) runs it on an array
\* too short to be merged: it takes the run the array starts with, reversed
\* when it falls, and puts every later element into the part before it by
\* binary insertion.  With a comparator that orders the elements this is a
\* stable ascending sort; with one that does not (an unreadable date compares
\* as equal to everything) the result is the one these steps give.
RECURSIVE RunEnd(_, _, _)
\* The last index of the run that starts s, found to reach index i so far:
\* a falling run goes on while the next element is below the one before it,
\* any other run while it is not.
RunEnd(s, descending, i) ==
    IF i = Len(s) THEN i
    ELSE LET order == CompareByDate(s[i + 1], s[i])
         IN  IF (descending /\ order >= 0) \/ (~descending /\ order < 0)
             THEN i
             ELSE RunEnd(s, descending, i + 1)

Reverse(s) == [i \in 1 .. Len(s) |-> s[Len(s) + 1 - i]]

RECURSIVE InsertionPoint(_, _, _, _)
\* The binary search for the place of pivot in prefix, between the (0-based)
\* positions left and right.
InsertionPoint(prefix, pivot, left, right) ==
    IF left >= right THEN left
    ELSE LET mid == left + ((right - left) \div 2)
         IN  IF CompareByDate(pivot, prefix[mid + 1]) < 0
             THEN InsertionPoint(prefix, pivot, left, mid)
             ELSE InsertionPoint(prefix, pivot, mid + 1, right)

RECURSIVE BinaryInsertionSort(_, _)
\* The elements of s from index start on are inserted, one after another,
\* into the part of s before them.
BinaryInsertionSort(s, start) ==
    IF start > Len(s) THEN s
    ELSE LET prefix == SubSeq(s, 1, start - 1)
             at == InsertionPoint(prefix, s[start], 0, start - 1)
         IN  BinaryInsertionSort(SubSeq(prefix, 1, at) \o <<s[start]>>
                                   \o SubSeq(prefix, at + 1, start - 1)
                                   \o SubSeq(s, start + 1, Len(s)),
                                 start + 1)

\* newConcerts.sort((a, b) => time(a) - time(b)).
SortByDate(s) ==
    IF Len(s) < 2 THEN s
    ELSE LET descending == CompareByDate(s[2], s[1]) < 0
             n == RunEnd(s, descending, 2)
             run == SubSeq(s, 1, n)
         IN  BinaryInsertionSort((IF descending THEN Reverse(run) ELSE run)
                                   \o SubSeq(s, n + 1, Len(s)),
                                 n + 1)

\* ------------------------------------------------------------- checkTours
\* A catch block that ends the process, as the startup catch of index.ts does.
CatchAndExit(run) ==
    [run |-> [run EXCEPT !.pc = "finally", !.status = ErrorMsg], proc |-> "exit1"]

\* The catch block of checkTours: log, set the error status, go to finally.
CatchCheckTours(run) ==
    [run |-> [run EXCEPT !.pc = "finally", !.status = ErrorMsg], proc |-> "running"]

\* The inner catch of the finally block: log; the process carries on.
CatchStatusSend == "running"

FreeSlot == CHOOSE r \in Slots : runs[r].pc = "idle" /\ \A q \in Slots : q < r => runs[q].pc # "idle"

\* checkTours(source, channelId) up to its first await (the fetch of the scraper).
StartRun(trigger, channelId) ==
    /\ proc = "running"
    /\ \E r \in Slots : runs[r].pc = "idle"
    /\ LET r == FreeSlot
           others == InFlight
       IN  runs' = [q \in Slots |->
                      IF q = r
                      THEN [IdleRun EXCEPT
                              !.pc = "scrape", !.trigger = trigger, !.channelId = channelId,
                              !.peerPosted = UNION {Posted(runs[o]) : o \in others},
                              !.clean = (others = {})]
                      ELSE [runs[q] EXCEPT !.clean = (q \notin others)]]
    /\ last' = IF InFlight = {} THEN last ELSE NoLast
    /\ UNCHANGED <<source, store, announced, proc, rec, scraper, old>>

\* cron.schedule('0 */4 * * *', () => this.checkTours('scheduled')).
Tick == StartRun("scheduled", NoChannel) /\ UNCHANGED <<cmd, http>>

\* The status codes of the responses to POST /scrape-job.
BadRequest == 400
Accepted == 202

\* No request answered yet.
NoResponse == [code |-> 0, channelId |-> NoChannel]

\* res.status(code).send(...) for a request whose body held channelId.
Respond(code, channelId) == [code |-> code, channelId |-> channelId]

\* A handler that takes every body as holding a channelId.
MissingChannelIdNever(channelId) == FALSE

\* if (!channelId).
MissingChannelId(channelId) == channelId = NoChannel

\* The handler of app.post('/scrape-job') on a body holding channelId: 400
\* without a channelId, else 202 and a manual run.
HandleScrapeJob(channelId) ==
    /\ proc = "running"
    /\ IF MissingChannelId(channelId)
       THEN /\ http' = Respond(BadRequest, channelId)
            /\ UNCHANGED <<source, store, runs, announced, proc, last, rec,
                           scraper, old>>
       ELSE /\ http' = Respond(Accepted, channelId)
            /\ StartRun("manual", channelId)

\* A POST to /scrape-job arrives from a client of the internal server.
ScrapeJob ==
    /\ \E channelId \in ChannelIds \cup {NoChannel} : HandleScrapeJob(channelId)
    /\ UNCHANGED cmd

\* How await fetch(this.url) settles: a response with response.ok, a response
\* with another status, or a rejection.
FetchOutcomes == {"ok", "notOk", "rejected"}

\* The catch block of scrapeTourDates: log and return [], which checkTours
\* takes as the scraped concerts.
CatchScrape(run) ==
    [run EXCEPT !.pc = "load", !.body = <<>>, !.scraped = ScrapeTourDates(FALSE, <<>>),
                !.fetchFailed = TRUE]

\* await fetch(this.url) settles inside scrapeTourDates: an OK response, which
\* carries the listing the source served, is read next with response.json();
\* another response is read with response.text() for the error message; a
\* rejection goes to the catch block.
FetchDone(r) ==
    /\ proc = "running"
    /\ runs[r].pc = "scrape"
    /\ \E outcome \in FetchOutcomes :
         runs' = [runs EXCEPT ![r] =
                    CASE outcome = "ok" -> [@ EXCEPT !.pc = "json", !.body = source]
                      [] outcome = "notOk" -> [@ EXCEPT !.pc = "text"]
                      [] OTHER -> CatchScrape(@)]
    /\ UNCHANGED <<source, store, announced, proc, last, rec, cmd, http, scraper, old>>

\* await response.text() settles: with the text or with a rejection the
\* function throws, and its catch block returns [].
ErrorTextDone(r) ==
    /\ proc = "running"
    /\ runs[r].pc = "text"
    /\ runs' = [runs EXCEPT ![r] = CatchScrape(@)]
    /\ UNCHANGED <<source, store, announced, proc, last, rec, cmd, http, scraper, old>>

\* await response.json() settles and scrapeTourDates returns to checkTours:
\* the concerts of the body, or [] from the catch block when the read rejects.
ScrapeDone(r) ==
    /\ proc = "running"
    /\ runs[r].pc = "json"
    /\ \E failed \in BOOLEAN :
         runs' = [runs EXCEPT ![r] =
                    IF failed
                    THEN CatchScrape(@)
                    ELSE [@ EXCEPT !.pc = "load", !.body = <<>>,
                                   !.scraped = ScrapeTourDates(TRUE, runs[r].body)]]
    /\ UNCHANGED <<source, store, announced, proc, last, rec, cmd, http, scraper, old>>

\* A branch that also takes the empty array for new concerts.
HasNewOrNone(newConcerts) == Len(newConcerts) >= 0

\* if (newConcerts.length > 0).
HasNew(newConcerts) == Len(newConcerts) > 0

\* await this.database.getConcerts() returns; filter, sort, branch on length.
LoadDone(r) ==
    /\ proc = "running"
    /\ runs[r].pc = "load"
    /\ \E failed \in BOOLEAN :
         LET savedConcerts == GetConcerts(~failed, store)
             newConcerts == SortByDate(NewConcerts(runs[r].scraped, Range(savedConcerts)))
         IN  runs' = [runs EXCEPT ![r] =
                        IF HasNew(newConcerts)
                        THEN [@ EXCEPT !.pc = "save", !.new = newConcerts,
                                       !.scraped = <<>>, !.loadFailed = failed]
                        ELSE [@ EXCEPT !.pc = "finally", !.status = NoneMsg,
                                       !.scraped = <<>>, !.loadFailed = failed]]
    /\ UNCHANGED <<source, store, announced, proc, last, rec, cmd, http, scraper, old>>

\* await this.database.saveConcerts(newConcerts) returns or throws; a table
\* holding MaxRows rows takes no more.
SaveDone(r) ==
    /\ proc = "running"
    /\ runs[r].pc = "save"
    /\ \E failed \in BOOLEAN :
         LET res == SaveConcerts(~failed, store, runs[r].new)
             run == [runs[r] EXCEPT !.saveFailed = failed]
         IN  /\ Len(res.rows) <= MaxRows
             /\ store' = res.rows
             /\ IF res.threw
                THEN LET c == CatchCheckTours(run)
                     IN  /\ runs' = [runs EXCEPT ![r] = c.run]
                         /\ proc' = c.proc
                ELSE /\ runs' = [runs EXCEPT ![r] = [run EXCEPT !.pc = "channel"]]
                     /\ UNCHANGED proc
    /\ UNCHANGED <<source, announced, last, rec, cmd, http, scraper, old>>

\* postConcerts up to its loop: DISCORD_CHANNEL_ID and channels.fetch, or throw.
ChannelDone(r) ==
    /\ proc = "running"
    /\ runs[r].pc = "channel"
    /\ \E failed \in BOOLEAN :
         IF ~failed
         THEN /\ runs' = [runs EXCEPT ![r] = [@ EXCEPT !.pc = "post", !.idx = 1]]
              /\ UNCHANGED proc
         ELSE LET c == CatchCheckTours(runs[r])
              IN  /\ runs' = [runs EXCEPT ![r] = c.run]
                  /\ proc' = c.proc
    /\ UNCHANGED <<source, store, announced, last, rec, cmd, http, scraper, old>>

\* One iteration of the loop of postConcerts: await channel.send(message).
SendOne(r) ==
    /\ proc = "running"
    /\ runs[r].pc = "post"
    /\ LET run == runs[r]
           concert == run.new[run.idx]
       IN  \E failed \in BOOLEAN :
             IF ~failed
             THEN /\ announced' = announced \cup {concert}
                  /\ runs' = [q \in Slots |->
                       IF q = r
                       THEN IF run.idx = Len(run.new)
                            THEN [run EXCEPT !.pc = "finally", !.idx = @ + 1,
                                             !.status = FoundMsg(Len(run.new))]
                            ELSE [run EXCEPT !.idx = @ + 1]
                       ELSE IF runs[q].pc # "idle"
                            THEN [runs[q] EXCEPT !.peerPosted = @ \cup {concert}]
                            ELSE runs[q]]
                  /\ UNCHANGED proc
             ELSE LET c == CatchCheckTours(run)
                  IN  /\ runs' = [runs EXCEPT ![r] = c.run]
                      /\ proc' = c.proc
                      /\ UNCHANGED announced
    /\ UNCHANGED <<source, store, last, rec, cmd, http, scraper, old>>

\* if (source === 'manual' && channelId) of the finally block.
Reports(run) == run.trigger = "manual" /\ run.channelId # NoChannel

\* How await this.client.channels.fetch(channelId) ends: with a text-based
\* channel, with a channel that is not text-based (or none), or rejected.
FetchResults == {"text", "other", "rejected"}

\* checkTours returns: the slot is free again.  reported is what became of
\* the status message of the run.
EndRun(r, reported) ==
    /\ last' = IF runs[r].clean
               THEN [outcome |-> runs[r].status.kind,
                     faulty |-> (runs[r].fetchFailed \/ runs[r].loadFailed
                                   \/ runs[r].status = ErrorMsg),
                     unposted |-> IF Saved(runs[r])
                                  THEN Range(runs[r].new) \ Posted(runs[r])
                                  ELSE {},
                     reported |-> reported]
               ELSE NoLast
    /\ runs' = [runs EXCEPT ![r] = IdleRun]

\* The finally block up to its first await: a scheduled run, or one without
\* a channelId, ends; a manual run with a channelId awaits channels.fetch,
\* whose rejection is caught and logged.
Finish(r) ==
    /\ proc = "running"
    /\ runs[r].pc = "finally"
    /\ IF ~Reports(runs[r])
       THEN EndRun(r, "n/a") /\ UNCHANGED proc
       ELSE \E fetched \in FetchResults :
              CASE fetched = "text" ->
                     /\ runs' = [runs EXCEPT ![r] = [@ EXCEPT !.pc = "status"]]
                     /\ UNCHANGED <<proc, last>>
                [] fetched = "other" ->
                     EndRun(r, "unsent") /\ UNCHANGED proc
                [] fetched = "rejected" ->
                     EndRun(r, "unsent") /\ proc' = CatchStatusSend
    /\ UNCHANGED <<source, store, announced, rec, cmd, http, scraper, old>>

\* await channel.send(statusMessage) of the finally block returns or is
\* rejected, which is caught and logged; the run ends.
StatusSendDone(r) ==
    /\ proc = "running"
    /\ runs[r].pc = "status"
    /\ \E failed \in BOOLEAN :
         /\ EndRun(r, IF failed THEN "unsent" ELSE runs[r].status.kind)
         /\ proc' = IF failed THEN CatchStatusSend ELSE proc
    /\ UNCHANGED <<source, store, announced, rec, cmd, http, scraper, old>>

\* The listing without its i-th record.
Without(s, i) == SubSeq(s, 1, i - 1) \o SubSeq(s, i + 1, Len(s))

\* The remote source changes its listing: a tour event is added or withdrawn.
SourceChange ==
    /\ proc = "running"
    /\ \/ \E event \in TourEvent :
            /\ Append(source, event) \in Listings
            /\ source' = Append(source, event)
       \/ \E i \in 1 .. Len(source) : source' = Without(source, i)
    /\ last' = NoLast
    /\ runs' = [q \in Slots |->
                  IF runs[q].pc = "idle" THEN runs[q] ELSE [runs[q] EXCEPT !.clean = FALSE]]
    /\ UNCHANGED <<store, announced, proc, rec, cmd, http, scraper, old>>

\* ------------------------------------------------------------- commands
CommandNames == {"scrape", "status", "postbydate"}

MaxInteractions == 2    \* command interactions the process receives

\* How an awaited interaction.reply / followUp ends: it resolves, it rejects,
\* or it rejects with DiscordAPIError code 10062 (unknown interaction).
CallResults == {"ok", "other", "10062"}

\* The date option of /postbydate: the day of a YYYY-MM-DD string (a day
\* with concerts or the day after the last one), or a string of another form.
MalformedDate == 0
DateOptions == (1 .. MaxDay + 1) \cup {MalformedDate}

\* No interaction yet.  admin says that the requester holds the admin role,
\* cached that interaction.member is a GuildMember with its role cache (it is
\* null outside a guild and a raw API member for an uncached guild).
\* replyCalls / followUps count the calls made, acks the
\* reply calls that resolved, rereplies the reply calls made on an interaction
\* already replied to, lateCalls the calls made after a call of this
\* interaction was rejected with 10062, handlerCalls the calls made by the
\* catch of the interactionCreate listener, failed the kinds of awaited call
\* that were rejected ("member": the read of member.roles.cache threw), unsent the concerts whose channel.send was rejected,
\* storeAt the rows of the table when the query of /postbydate ran and lastAt
\* what the latest finished run had done when /status was answered;
\* channelId is interaction.channelId and job the POST of /scrape to
\* /scrape-job: "none", "sent" (on its way), "handled" or "lost".  earlier
\* holds the interactions that arrived before this one, in their order.
NoCmd ==
    [pc |-> "idle", name |-> "none", admin |-> FALSE, cached |-> TRUE,
     date |-> MalformedDate,
     channelId |-> NoChannel, job |-> "none",
     replied |-> FALSE, text |-> "", thrown |-> "none", expired |-> FALSE,
     replyCalls |-> 0, acks |-> 0, rereplies |-> 0, followUps |-> 0,
     lateCalls |-> 0, handlerCalls |-> 0, failed |-> {},
     queried |-> FALSE, toPost |-> <<>>, posted |-> 0, unsent |-> 0,
     storeAt |-> <<>>, lastAt |-> "empty", earlier |-> <<>>]

\* The interactions that have arrived: 0 is the latest, i > 0 the i-th.
Interactions == 0 .. Len(cmd.earlier)
TheCmd(i) == IF i = 0 THEN cmd ELSE cmd.earlier[i]

\* Interaction i becomes c.
WithCmd(i, c) == IF i = 0 THEN c ELSE [cmd EXCEPT !.earlier[i] = c]

\* await interaction.reply({content}) on interaction c ending as result.
Reply(c, content, result) ==
    [c EXCEPT !.replyCalls = @ + 1,
              !.rereplies = IF c.replied THEN @ + 1 ELSE @,
              !.lateCalls = IF c.expired THEN @ + 1 ELSE @,
              !.acks = IF result = "ok" THEN @ + 1 ELSE @,
              !.replied = c.replied \/ result = "ok",
              !.text = IF result = "ok" THEN content ELSE @,
              !.expired = c.expired \/ result = "10062",
              !.failed = IF result # "ok" THEN @ \cup {"reply"} ELSE @]

\* await interaction.followUp({content}) on interaction c ending as result.
FollowUp(c, result) ==
    [c EXCEPT !.followUps = @ + 1,
              !.lateCalls = IF c.expired THEN @ + 1 ELSE @,
              !.expired = c.expired \/ result = "10062",
              !.failed = IF result # "ok" THEN @ \cup {"followUp"} ELSE @]

\* A rejection leaves handleCommand and reaches the catch of the listener,
\* which returns at once on code 10062 and otherwise awaits its error text.
Throw(c, result) ==
    [c EXCEPT !.pc = IF result = "10062" THEN "done" ELSE "outer_catch",
              !.thrown = result]

\* DatabaseService.getConcertsByDate: the rows whose date column equals the
\* given string; a query error is logged and yields [].
GetConcertsByDate(ok, rows, date) ==
    IF ok
    THEN SelectSeq(rows, LAMBDA row : row.date = [day |-> date, hour |-> 0, off |-> 0])
    ELSE <<>>

\* An error handler that always answers with reply.
ErrorUsesReplyOnly(c) == FALSE

\* if (interaction.replied || interaction.deferred) followUp else reply.
ErrorUsesFollowUp(c) == c.replied

\* client.on('interactionCreate'): a command interaction arrives and
\* handleCommand is called for it, whatever else is under way.
Interaction(name, admin, cached, date, channelId) ==
    /\ proc = "running"
    /\ cmd.pc = "idle" \/ Len(cmd.earlier) + 1 < MaxInteractions
    /\ cmd' = [NoCmd EXCEPT !.pc = "handle", !.name = name, !.admin = admin,
                            !.cached = cached, !.date = date, !.channelId = channelId,
                            !.earlier = IF cmd.pc = "idle" THEN <<>>
                                        ELSE Append(cmd.earlier,
                                                    [cmd EXCEPT !.earlier = <<>>])]
    /\ UNCHANGED <<source, store, runs, announced, proc, last, rec, http, scraper, old>>

\* handleCommand of interaction i up to the end of its first await: the
\* reply of /scrape, after which the POST to /scrape-job is sent and not
\* awaited, the reply of /status, the role check, the date check and the
\* first reply of /postbydate.  The role check reads member.roles.cache,
\* which throws a TypeError when interaction.member is not a GuildMember:
\* handleCommand is then left before any reply, for the catch of the listener.
HandleCommand(i) ==
    /\ proc = "running"
    /\ TheCmd(i).pc = "handle"
    /\ \E result \in CallResults :
         LET this == TheCmd(i)
         IN  cmd' = WithCmd(i,
               CASE this.name = "scrape" ->
                      LET c == Reply(this, "received", result)
                      IN  IF result = "ok"
                          THEN [c EXCEPT !.pc = "done", !.job = "sent"]
                          ELSE Throw(c, result)
                 [] this.name = "status" ->
                      LET c == [Reply(this, "operational", result) EXCEPT
                                  !.lastAt = last.outcome]
                      IN  IF result = "ok" THEN [c EXCEPT !.pc = "done"]
                                           ELSE Throw(c, result)
                 [] this.name = "postbydate" ->
                      LET content == IF ~this.admin THEN "denied"
                                     ELSE IF this.date = MalformedDate THEN "format"
                                     ELSE "searching"
                          c == Reply(this, content, result)
                      IN  IF ~this.cached
                          THEN Throw([this EXCEPT !.failed = @ \cup {"member"}], "other")
                          ELSE IF result # "ok" THEN Throw(c, result)
                          ELSE IF content = "searching" THEN [c EXCEPT !.pc = "query"]
                          ELSE [c EXCEPT !.pc = "done"])
    /\ UNCHANGED <<source, store, runs, announced, proc, last, rec, http, scraper, old>>

\* The POST of the /scrape of interaction i reaches the internal server and
\* is handled.
DispatchedScrapeJob(i) ==
    /\ TheCmd(i).job = "sent"
    /\ HandleScrapeJob(TheCmd(i).channelId)
    /\ cmd' = WithCmd(i, [TheCmd(i) EXCEPT !.job = "handled"])

\* The POST of the /scrape of interaction i does not get through: fetch
\* rejects, which is logged.
DispatchFailed(i) ==
    /\ proc = "running"
    /\ TheCmd(i).job = "sent"
    /\ cmd' = WithCmd(i, [TheCmd(i) EXCEPT !.job = "lost"])
    /\ UNCHANGED <<source, store, runs, announced, proc, last, rec, http, scraper, old>>

\* /postbydate: await this.database.getConcertsByDate(date) returns.
QueryDone(i) ==
    /\ proc = "running"
    /\ TheCmd(i).pc = "query"
    /\ \E failed \in BOOLEAN :
         LET concertsToPost == GetConcertsByDate(~failed, store, TheCmd(i).date)
         IN  cmd' = WithCmd(i,
               [TheCmd(i) EXCEPT
                  !.queried = TRUE, !.toPost = concertsToPost, !.storeAt = store,
                  !.failed = IF failed THEN @ \cup {"query"} ELSE @,
                  !.pc = IF Len(concertsToPost) > 0 THEN "channel" ELSE "followup"])
    /\ UNCHANGED <<source, store, runs, announced, proc, last, rec, http, scraper, old>>

\* /postbydate: postConcerts up to its loop; a throw reaches the catch of
\* the command.
RepostChannelDone(i) ==
    /\ proc = "running"
    /\ TheCmd(i).pc = "channel"
    /\ \E failed \in BOOLEAN :
         cmd' = WithCmd(i,
                  IF failed THEN [TheCmd(i) EXCEPT !.pc = "inner_catch",
                                                   !.failed = @ \cup {"channel"}]
                            ELSE [TheCmd(i) EXCEPT !.pc = "post"])
    /\ UNCHANGED <<source, store, runs, announced, proc, last, rec, http, scraper, old>>

\* /postbydate: one iteration of the loop of postConcerts, in the order the
\* store returned the rows; posted counts the sends that resolved, unsent the
\* send that was rejected.
RepostOne(i) ==
    /\ proc = "running"
    /\ TheCmd(i).pc = "post"
    /\ \E failed \in BOOLEAN :
         cmd' = WithCmd(i,
                  IF failed
                  THEN [TheCmd(i) EXCEPT !.pc = "inner_catch", !.unsent = 1,
                                         !.failed = @ \cup {"send"}]
                  ELSE [TheCmd(i) EXCEPT
                          !.posted = @ + 1,
                          !.pc = IF TheCmd(i).posted + 1 = Len(TheCmd(i).toPost)
                                 THEN "followup" ELSE "post"])
    /\ UNCHANGED <<source, store, runs, announced, proc, last, rec, http, scraper, old>>

\* /postbydate: the followUp with the result ("Found and posted n" or "No
\* concerts found"); its rejection is caught by the catch of the command.
ResultFollowUp(i) ==
    /\ proc = "running"
    /\ TheCmd(i).pc = "followup"
    /\ \E result \in CallResults :
         LET c == FollowUp(TheCmd(i), result)
         IN  cmd' = WithCmd(i, [c EXCEPT !.pc = IF result = "ok" THEN "done"
                                                 ELSE "inner_catch"])
    /\ UNCHANGED <<source, store, runs, announced, proc, last, rec, http, scraper, old>>

\* /postbydate: the catch of the command sends its error text by followUp.
CommandCatch(i) ==
    /\ proc = "running"
    /\ TheCmd(i).pc = "inner_catch"
    /\ \E result \in CallResults :
         LET c == FollowUp(TheCmd(i), result)
         IN  cmd' = WithCmd(i, IF result = "ok" THEN [c EXCEPT !.pc = "done"]
                                                ELSE Throw(c, result))
    /\ UNCHANGED <<source, store, runs, announced, proc, last, rec, http, scraper, old>>

\* The catch of the interactionCreate listener on an error other than code
\* 10062: the error text by followUp or reply; a rejection is logged.
ListenerCatch(i) ==
    /\ proc = "running"
    /\ TheCmd(i).pc = "outer_catch"
    /\ \E result \in CallResults :
         LET c == IF ErrorUsesFollowUp(TheCmd(i))
                  THEN FollowUp(TheCmd(i), result)
                  ELSE Reply(TheCmd(i), "error", result)
         IN  cmd' = WithCmd(i, [c EXCEPT !.pc = "done", !.handlerCalls = @ + 1])
    /\ UNCHANGED <<source, store, runs, announced, proc, last, rec, http, scraper, old>>

\* ------------------------------------------------------------- browser scraper
\* A Scraper not driven by the checks of this specification.
NoScraper == [pc |-> "off"]

MaxCalls == 5       \* calls made on one Scraper
MaxLaunches == 2    \* browsers one Scraper launches
MaxPending == 2     \* calls of one Scraper that are in flight together

\* private browser: Browser | null = null.
NoBrowser == 0

\* What the selectors of page.evaluate read from one listing element: the
\* trimmed text, or '' when the element or its text is missing.
Elements == [venue : {"Fillmore", ""}, location : {"SF", ""}, date : {"Jan 1", ""}]

\* The listing elements of the page, in document order.
PageContents == SeqsUpTo(Elements, 2)

\* if (venue && location && date) concertData.push({ venue, location, date }).
Complete(e) == e.venue # "" /\ e.location # "" /\ e.date # ""

\* The callback of page.evaluate over the elements of the page.
ExtractConcerts(elements) == SelectSeq(elements, Complete)

\* The calls of the Scraper that can be in flight together.
Calls == 1 .. MaxPending

\* No call: held is this.browser as a call found it on entry, on the browser
\* it called newPage() or close() on, page the page it opened.
NoCall ==
    [pc |-> "idle", call |-> "none", held |-> NoBrowser, on |-> NoBrowser,
     page |-> "none", result |-> "none", concerts |-> <<>>]

\* new Scraper(): no browser.  calls counts the calls made, launches the
\* browsers launched, live holds the browsers launched and not closed,
\* pending the calls in flight, ended the call that ended last while no call
\* has begun since.
NewScraper ==
    [pc |-> "on", browser |-> NoBrowser, live |-> {}, launches |-> 0, calls |-> 0,
     pending |-> [k \in Calls |-> NoCall], ended |-> NoCall]

FreeCall ==
    CHOOSE k \in Calls :
        scraper.pending[k].pc = "idle" /\ \A j \in Calls : j < k => scraper.pending[j].pc # "idle"

\* Call k returns or throws.
EndCall(s, k, result) ==
    [s EXCEPT !.pending[k] = NoCall,
              !.ended = [s.pending[k] EXCEPT !.pc = "idle", !.result = result]]

\* A call of method name begins as call k.
BeginCall(s, k, name) ==
    [s EXCEPT !.calls = @ + 1, !.ended = NoCall,
              !.pending[k] = [NoCall EXCEPT !.call = name, !.held = s.browser,
                                            !.result = "pending"]]

\* Call k is at its await named pc.
At(k, pc) == scraper.pending[k].pc = pc

\* The browser of the page of call k has been closed, and the page with it.
PageGone(k) == scraper.pending[k].on \notin scraper.live

\* if (this.browser) in initialize().
AlreadyInitialized(s) == s.browser # NoBrowser

\* Scraper.initialize up to its await of puppeteer.launch.
Initialize ==
    /\ \E k \in Calls : scraper.pending[k].pc = "idle"
    /\ scraper.calls < MaxCalls
    /\ scraper.launches + Cardinality({k \in Calls : scraper.pending[k].pc = "launching"})
         < MaxLaunches
    /\ LET k == FreeCall
           s == BeginCall(scraper, k, "initialize")
       IN  scraper' = IF AlreadyInitialized(s)
                      THEN EndCall(s, k, "ok")
                      ELSE [s EXCEPT !.pending[k].pc = "launching"]
    /\ UNCHANGED <<source, store, runs, announced, proc, last, rec, cmd, http, old>>

\* this.browser = await puppeteer.launch(...): the launch resolves or rejects.
LaunchDone(k) ==
    /\ At(k, "launching")
    /\ \E failed \in BOOLEAN :
         scraper' = IF failed
                    THEN EndCall(scraper, k, "error")
                    ELSE LET b == scraper.launches + 1
                         IN  EndCall([scraper EXCEPT !.launches = b, !.browser = b,
                                                     !.live = @ \cup {b}], k, "ok")
    /\ UNCHANGED <<source, store, runs, announced, proc, last, rec, cmd, http, old>>

\* Scraper.scrapeTourDates up to its await of browser.newPage: it throws
\* 'Scraper not initialized' without a browser.
ScrapeCall ==
    /\ \E k \in Calls : scraper.pending[k].pc = "idle"
    /\ scraper.calls < MaxCalls
    /\ LET k == FreeCall
           s == BeginCall(scraper, k, "scrapeTourDates")
       IN  scraper' = IF s.browser = NoBrowser
                      THEN EndCall(s, k, "error")
                      ELSE [s EXCEPT !.pending[k].pc = "newPage",
                                     !.pending[k].on = s.browser]
    /\ UNCHANGED <<source, store, runs, announced, proc, last, rec, cmd, http, old>>

\* const page = await this.browser.newPage(): it rejects on a browser that
\* has been closed.
NewPageDone(k) ==
    /\ At(k, "newPage")
    /\ \E failed \in BOOLEAN :
         /\ PageGone(k) => failed
         /\ scraper' = IF failed
                       THEN EndCall(scraper, k, "error")
                       ELSE [scraper EXCEPT !.pending[k].pc = "goto",
                                            !.pending[k].page = "open"]
    /\ UNCHANGED <<source, store, runs, announced, proc, last, rec, cmd, http, old>>

\* await page.goto(this.url, ...): outside every try, a rejection leaves the
\* call with the page as it is.
GotoDone(k) ==
    /\ At(k, "goto")
    /\ \E failed \in BOOLEAN :
         /\ PageGone(k) => failed
         /\ scraper' = IF failed
                       THEN EndCall(scraper, k, "error")
                       ELSE [scraper EXCEPT !.pending[k].pc = "waitForSelector"]
    /\ UNCHANGED <<source, store, runs, announced, proc, last, rec, cmd, http, old>>

\* await page.waitForSelector('.event-listings-element'): on a timeout or
\* another rejection the catch closes the page and returns [].
WaitForSelectorDone(k) ==
    /\ At(k, "waitForSelector")
    /\ \E found \in BOOLEAN :
         /\ PageGone(k) => ~found
         /\ scraper' = [scraper EXCEPT !.pending[k].pc =
                                          IF found THEN "evaluate" ELSE "closeNotFound"]
    /\ UNCHANGED <<source, store, runs, announced, proc, last, rec, cmd, http, old>>

\* const concerts = await page.evaluate(...).
EvaluateDone(k) ==
    /\ At(k, "evaluate")
    /\ \E failed \in BOOLEAN : \E elements \in PageContents :
         /\ PageGone(k) => failed
         /\ scraper' = IF failed
                       THEN EndCall(scraper, k, "error")
                       ELSE [scraper EXCEPT !.pending[k].pc = "closePage",
                                            !.pending[k].concerts = ExtractConcerts(elements)]
    /\ UNCHANGED <<source, store, runs, announced, proc, last, rec, cmd, http, old>>

\* await page.close() and the return after it, on the path that found the
\* listing and on the path that did not.
PageCloseDone(k) ==
    /\ \/ At(k, "closePage")
       \/ At(k, "closeNotFound")
    /\ \E failed \in BOOLEAN :
         scraper' = IF failed
                    THEN EndCall([scraper EXCEPT !.pending[k].concerts = <<>>], k, "error")
                    ELSE EndCall([scraper EXCEPT !.pending[k].page = "closed"], k,
                                 IF scraper.pending[k].pc = "closePage"
                                 THEN "concerts" ELSE "empty")
    /\ UNCHANGED <<source, store, runs, announced, proc, last, rec, cmd, http, old>>

\* Scraper.close up to its await of browser.close.
CloseCall ==
    /\ \E k \in Calls : scraper.pending[k].pc = "idle"
    /\ scraper.calls < MaxCalls
    /\ LET k == FreeCall
           s == BeginCall(scraper, k, "close")
       IN  scraper' = IF s.browser # NoBrowser
                      THEN [s EXCEPT !.pending[k].pc = "closeBrowser",
                                     !.pending[k].on = s.browser]
                      ELSE EndCall(s, k, "ok")
    /\ UNCHANGED <<source, store, runs, announced, proc, last, rec, cmd, http, old>>

\* await this.browser.close(); this.browser = null.  A closed browser takes
\* its pages with it.
BrowserCloseDone(k) ==
    /\ At(k, "closeBrowser")
    /\ \E failed \in BOOLEAN :
         scraper' = IF failed
                    THEN EndCall(scraper, k, "error")
                    ELSE LET closed == scraper.pending[k].on
                             s == [scraper EXCEPT
                                     !.live = @ \ {closed},
                                     !.browser = NoBrowser,
                                     !.pending = [j \in Calls |->
                                        IF @[j].on = closed /\ @[j].page = "open"
                                        THEN [@[j] EXCEPT !.page = "closed"]
                                        ELSE @[j]]]
                         IN  EndCall(s, k, "ok")
    /\ UNCHANGED <<source, store, runs, announced, proc, last, rec, cmd, http, old>>

\* ------------------------------------------------------------- older bot
\* The interaction-based Bot is not running.
NoOld == [pc |-> "off"]

MaxChecks == 2      \* checkTours calls the older bot makes
MaxOldRuns == 2     \* checkTours calls of the older bot in flight together

\* A JavaScript string value and a JavaScript object value (a row the query
\* returned).
JsString(s) == [type |-> "string", val |-> s]
JsObject(o) == [type |-> "object", val |-> o]

\* SameValueZero, the comparison of Array.prototype.includes: values of
\* different types are never the same.
SameValueZero(x, y) == x.type = y.type /\ x.val = y.val

\* savedConcerts.includes(value) on the array of row objects.
Includes(savedConcerts, value) ==
    \E i \in 1 .. Len(savedConcerts) : SameValueZero(JsObject(savedConcerts[i]), value)

\* scrapedConcerts.filter(sc => !savedConcerts.includes(sc.venue)).
OldNewConcerts(scrapedConcerts, savedConcerts) ==
    LET IsNew(sc) == ~Includes(savedConcerts, JsString(sc.venue))
    IN  SelectSeq(scrapedConcerts, IsNew)

\* The older DatabaseService.getConcerts: a query error is logged and yields [].
OldGetConcerts(ok, rows) == IF ok THEN rows ELSE <<>>

\* The older DatabaseService.saveConcerts: insert(records), an error is only
\* logged.
OldSaveConcerts(ok, rows, concerts) == IF ok THEN rows \o concerts ELSE rows

\* The rows an earlier process may have left in the table.
OldTables == SeqsUpTo({e \in Elements : Complete(e)}, 1)

\* The checkTours calls of the older bot that can be in flight together.
OldSlots == 1 .. MaxOldRuns

\* No checkTours call.  on is the browser the call asked for its page,
\* closing the browser its finally block asked to close, idx the next
\* concert postConcerts sends, threw a throw caught by checkTours, rejected a
\* throw that left it, afterClean that the call began with no other call in
\* flight after a call that ran with no failing step.
IdleCheck ==
    [pc |-> "idle", viaCommand |-> FALSE, on |-> NoBrowser, closing |-> NoBrowser,
     scraped |-> <<>>, saved |-> <<>>, new |-> <<>>, idx |-> 0,
     threw |-> FALSE, rejected |-> FALSE, afterClean |-> FALSE]

\* The Bot after construction, with its new Scraper().  browser is
\* this.browser of the Scraper, live the browsers launched and not closed,
\* checks the checkTours calls made, listing the elements the tour page
\* shows, rows the table; usedClosed records a newPage() called on a closed
\* browser, prevClean that the call that ended last ran with no failing step.
NewOld ==
    [pc |-> "on", proc |-> "running",
     browser |-> NoBrowser, live |-> {}, launches |-> 0, checks |-> 0,
     listing |-> <<>>, rows |-> <<>>,
     check |-> [c \in OldSlots |-> IdleCheck],
     usedClosed |-> FALSE, prevClean |-> FALSE]

\* The checkTours calls in flight.
OldInFlight == {c \in OldSlots : old.check[c].pc # "idle"}

OldFreeSlot ==
    CHOOSE c \in OldSlots :
        old.check[c].pc = "idle" /\ \A d \in OldSlots : d < c => old.check[d].pc # "idle"

\* Call c of checkTours is at its await named pc.
OldAt(c, pc) == old.proc = "running" /\ old.check[c].pc = pc

\* Call c goes on to its await named pc; on the way into the finally block
\* this.scraper.close() is called on the browser the Scraper then holds.
Enter(o, c, pc) ==
    [o EXCEPT !.check[c] = [@ EXCEPT !.pc = pc,
                                     !.closing = IF pc = "finally" THEN o.browser ELSE @]]

\* The lazily initialising scrapeTourDates up to its first await:
\* if (!this.browser) await this.initialize(), else this.browser!.newPage().
LazyEntry(o, c) ==
    IF o.browser = NoBrowser
    THEN Enter(o, c, "launch")
    ELSE [Enter(o, c, "newPage") EXCEPT !.check[c].on = o.browser,
                                        !.usedClosed = @ \/ o.browser \notin o.live]

\* A throw inside the try of checkTours: the catch logs it and, for an
\* interaction, awaits a followUp; otherwise the finally block is next.
OldThrow(o, c) ==
    LET t == [o EXCEPT !.check[c].threw = TRUE]
    IN  Enter(t, c, IF o.check[c].viaCommand THEN "catch" ELSE "finally")

\* The awaited followUp of checkTours, which only a check started by an
\* interaction sends.
AfterWork(o, c) == Enter(o, c, IF o.check[c].viaCommand THEN "followUp" ELSE "finally")

\* checkTours(interaction?) is called by the cron job or by /scrape.
OldCheckTours ==
    /\ old.proc = "running"
    /\ \E c \in OldSlots : old.check[c].pc = "idle"
    /\ old.checks < MaxChecks
    /\ \E viaCommand \in BOOLEAN :
         LET c == OldFreeSlot
             o == [old EXCEPT
                     !.checks = @ + 1,
                     !.check[c] = [IdleCheck EXCEPT
                                     !.viaCommand = viaCommand,
                                     !.afterClean = old.prevClean /\ OldInFlight = {}]]
         IN  old' = IF viaCommand THEN Enter(o, c, "reply") ELSE LazyEntry(o, c)
    /\ UNCHANGED <<source, store, runs, announced, proc, last, rec, cmd, http, scraper>>

\* await interaction.reply('Checking for new tour dates...').
OldReplyDone(c) ==
    /\ OldAt(c, "reply")
    /\ \E failed \in BOOLEAN :
         old' = IF failed THEN OldThrow(old, c) ELSE LazyEntry(old, c)
    /\ UNCHANGED <<source, store, runs, announced, proc, last, rec, cmd, http, scraper>>

\* The private initialize() of the lazy Scraper: this.browser = await
\* puppeteer.launch(...), and newPage() on that browser.
OldLaunchDone(c) ==
    /\ OldAt(c, "launch")
    /\ \E failed \in BOOLEAN :
         old' = IF failed
                THEN OldThrow(old, c)
                ELSE LET b == old.launches + 1
                     IN  [Enter(old, c, "newPage") EXCEPT
                            !.launches = b, !.browser = b, !.live = @ \cup {b},
                            !.check[c].on = b]
    /\ UNCHANGED <<source, store, runs, announced, proc, last, rec, cmd, http, scraper>>

\* The browser call c took its page from has been closed.
OldPageGone(c) == old.check[c].on \notin old.live

\* const page = await this.browser!.newPage(): it rejects on a browser that
\* was closed.
OldNewPageDone(c) ==
    /\ OldAt(c, "newPage")
    /\ \E failed \in BOOLEAN :
         /\ OldPageGone(c) => failed
         /\ old' = IF failed THEN OldThrow(old, c) ELSE Enter(old, c, "goto")
    /\ UNCHANGED <<source, store, runs, announced, proc, last, rec, cmd, http, scraper>>

\* await page.goto(this.url, ...) of the lazy scrapeTourDates.
OldGotoDone(c) ==
    /\ OldAt(c, "goto")
    /\ \E failed \in BOOLEAN :
         /\ OldPageGone(c) => failed
         /\ old' = IF failed THEN OldThrow(old, c) ELSE Enter(old, c, "evaluate")
    /\ UNCHANGED <<source, store, runs, announced, proc, last, rec, cmd, http, scraper>>

\* const concerts = await page.evaluate(...) of the lazy scrapeTourDates.
OldEvaluateDone(c) ==
    /\ OldAt(c, "evaluate")
    /\ \E failed \in BOOLEAN :
         /\ OldPageGone(c) => failed
         /\ old' = IF failed
                   THEN OldThrow(old, c)
                   ELSE [Enter(old, c, "closePage") EXCEPT
                           !.check[c].scraped = ExtractConcerts(old.listing)]
    /\ UNCHANGED <<source, store, runs, announced, proc, last, rec, cmd, http, scraper>>

\* await page.close() of the lazy scrapeTourDates, which then returns the
\* concerts to checkTours; a rejection leaves checkTours without them.
OldPageCloseDone(c) ==
    /\ OldAt(c, "closePage")
    /\ \E failed \in BOOLEAN :
         old' = IF failed
                THEN OldThrow([old EXCEPT !.check[c].scraped = <<>>], c)
                ELSE Enter(old, c, "load")
    /\ UNCHANGED <<source, store, runs, announced, proc, last, rec, cmd, http, scraper>>

\* await this.database.getConcerts() returns and the filter runs.
OldLoadDone(c) ==
    /\ OldAt(c, "load")
    /\ \E failed \in BOOLEAN :
         LET savedConcerts == OldGetConcerts(~failed, old.rows)
             newConcerts == OldNewConcerts(old.check[c].scraped, savedConcerts)
             o == [old EXCEPT !.check[c].saved = savedConcerts,
                              !.check[c].new = newConcerts]
         IN  old' = IF Len(newConcerts) > 0 THEN Enter(o, c, "save") ELSE AfterWork(o, c)
    /\ UNCHANGED <<source, store, runs, announced, proc, last, rec, cmd, http, scraper>>

\* await this.database.saveConcerts(newConcerts) returns.
OldSaveDone(c) ==
    /\ OldAt(c, "save")
    /\ \E failed \in BOOLEAN :
         old' = [Enter(old, c, "channel") EXCEPT
                   !.rows = OldSaveConcerts(~failed, old.rows, old.check[c].new)]
    /\ UNCHANGED <<source, store, runs, announced, proc, last, rec, cmd, http, scraper>>

\* postConcerts up to its loop.
OldChannelDone(c) ==
    /\ OldAt(c, "channel")
    /\ \E failed \in BOOLEAN :
         old' = IF failed
                THEN OldThrow(old, c)
                ELSE [Enter(old, c, "post") EXCEPT !.check[c].idx = 1]
    /\ UNCHANGED <<source, store, runs, announced, proc, last, rec, cmd, http, scraper>>

\* One await channel.send(message) of the loop of postConcerts.
OldSendOne(c) ==
    /\ OldAt(c, "post")
    /\ \E failed \in BOOLEAN :
         old' = IF failed
                THEN OldThrow(old, c)
                ELSE LET o == [old EXCEPT !.check[c].idx = @ + 1]
                     IN  IF old.check[c].idx = Len(old.check[c].new)
                         THEN AfterWork(o, c)
                         ELSE o
    /\ UNCHANGED <<source, store, runs, announced, proc, last, rec, cmd, http, scraper>>

\* await interaction.followUp(...) with the result of the check.
OldFollowUpDone(c) ==
    /\ OldAt(c, "followUp")
    /\ \E failed \in BOOLEAN :
         old' = IF failed THEN OldThrow(old, c) ELSE Enter(old, c, "finally")
    /\ UNCHANGED <<source, store, runs, announced, proc, last, rec, cmd, http, scraper>>

\* The followUp the catch of checkTours awaits for an interaction; its
\* rejection leaves checkTours by way of the finally block.
OldCatch(c) ==
    /\ OldAt(c, "catch")
    /\ \E failed \in BOOLEAN :
         old' = Enter([old EXCEPT !.check[c].rejected = failed], c, "finally")
    /\ UNCHANGED <<source, store, runs, announced, proc, last, rec, cmd, http, scraper>>

\* finally { await this.scraper.close() }: the browser is closed and
\* this.browser keeps referring to it.  Nothing handles a rejection of
\* checkTours, which may end the process.
OldFinally(c) ==
    /\ OldAt(c, "finally")
    /\ \E failed \in BOOLEAN : \E exits \in BOOLEAN :
         LET ck == old.check[c]
         IN  /\ failed => ck.closing # NoBrowser
             /\ exits => (failed \/ ck.rejected)
             /\ old' = [old EXCEPT
                          !.check[c] = IdleCheck,
                          !.live = IF failed THEN @ ELSE @ \ {ck.closing},
                          !.prevClean = ~ck.threw /\ ~ck.rejected /\ ~failed,
                          !.proc = IF exits THEN "exit" ELSE @]
    /\ UNCHANGED <<source, store, runs, announced, proc, last, rec, cmd, http, scraper>>

\* No evaluation of the filter on given arrays.
NoRec ==
    [pc |-> "off", included |-> <<>>, earlier |-> {},
     scraped |-> <<>>, saved |-> {}, new |-> <<>>]

\* The filter and the sort of checkTours applied to the given arrays.
Reconcile ==
    /\ rec.pc = "input"
    /\ rec' = [rec EXCEPT !.pc = "done",
                          !.new = SortByDate(NewConcerts(rec.scraped, rec.saved))]
    /\ UNCHANGED <<source, store, runs, announced, proc, last, cmd, http, scraper, old>>

Init ==
    /\ source \in Listings
    /\ store = <<>>
    /\ runs = [r \in Slots |-> IdleRun]
    /\ announced = {}
    /\ proc = "running"
    /\ last = NoLast
    /\ rec = NoRec
    /\ cmd = NoCmd
    /\ http = NoResponse
    /\ scraper = NoScraper
    /\ old = NoOld

\* A trigger that arrives while no check is in flight.
TickIdle == InFlight = {} /\ Tick
ScrapeJobIdle == InFlight = {} /\ ScrapeJob

\* Checks run one after another; the source may change at any time.
Next ==
    \/ TickIdle
    \/ ScrapeJobIdle
    \/ \E r \in Slots : FetchDone(r)
    \/ \E r \in Slots : ErrorTextDone(r)
    \/ \E r \in Slots : ScrapeDone(r)
    \/ \E r \in Slots : LoadDone(r)
    \/ \E r \in Slots : SaveDone(r)
    \/ \E r \in Slots : ChannelDone(r)
    \/ \E r \in Slots : SendOne(r)
    \/ \E r \in Slots : Finish(r)
    \/ \E r \in Slots : StatusSendDone(r)
    \/ SourceChange

Spec == Init /\ [][Next]_vars

\* Triggers arrive at any time, so checks overlap; the source keeps its listing.
NextConc ==
    \/ Tick
    \/ ScrapeJob
    \/ \E r \in Slots : FetchDone(r)
    \/ \E r \in Slots : ErrorTextDone(r)
    \/ \E r \in Slots : ScrapeDone(r)
    \/ \E r \in Slots : LoadDone(r)
    \/ \E r \in Slots : SaveDone(r)
    \/ \E r \in Slots : ChannelDone(r)
    \/ \E r \in Slots : SendOne(r)
    \/ \E r \in Slots : Finish(r)
    \/ \E r \in Slots : StatusSendDone(r)

SpecConc == Init /\ [][NextConc]_vars

\* A step in which no fetch, store read, save, channel fetch or send fails
\* and no response of the source is other than OK.
NoFailure ==
    \A r \in Slots :
        /\ runs'[r].pc # "text"
        /\ ~runs'[r].fetchFailed /\ ~runs'[r].loadFailed /\ ~runs'[r].saveFailed
        /\ runs'[r].status # ErrorMsg

\* One await of a run returns, without a failure.
RunStep(r) ==
    /\ \/ FetchDone(r) \/ ScrapeDone(r) \/ LoadDone(r) \/ SaveDone(r)
       \/ ChannelDone(r) \/ SendOne(r) \/ Finish(r) \/ StatusSendDone(r)
    /\ NoFailure

NextLive ==
    \/ TickIdle
    \/ ScrapeJobIdle
    \/ \E r \in Slots : RunStep(r)
    \/ SourceChange

\* Checks one after another with no failing step: the cron job keeps firing
\* and the event loop resumes every run after each of its awaits.
SpecLive ==
    /\ Init
    /\ [][NextLive]_vars
    /\ WF_vars(TickIdle)
    /\ \A r \in Slots : WF_vars(RunStep(r))

\* Slash commands arriving at any time, also while earlier ones are being
\* handled and while checks run; the POST of a /scrape arrives at the
\* internal server in a step of its own and starts a manual check.
NextCmd ==
    \/ \E name \in CommandNames : \E admin, cached \in BOOLEAN :
       \E date \in DateOptions : \E channelId \in ChannelIds \cup {NoChannel} :
          /\ name # "postbydate" => (date = MalformedDate /\ cached)
          /\ name # "scrape" => channelId \in ChannelIds
          /\ Interaction(name, admin, cached, date, channelId)
    \/ \E i \in Interactions : HandleCommand(i)
    \/ \E i \in Interactions : DispatchedScrapeJob(i)
    \/ \E i \in Interactions : DispatchFailed(i)
    \/ \E i \in Interactions : QueryDone(i)
    \/ \E i \in Interactions : RepostChannelDone(i)
    \/ \E i \in Interactions : RepostOne(i)
    \/ \E i \in Interactions : ResultFollowUp(i)
    \/ \E i \in Interactions : CommandCatch(i)
    \/ \E i \in Interactions : ListenerCatch(i)
    \/ \E r \in Slots :
          \/ FetchDone(r) \/ ErrorTextDone(r) \/ ScrapeDone(r) \/ LoadDone(r) \/ SaveDone(r)
          \/ ChannelDone(r) \/ SendOne(r) \/ Finish(r) \/ StatusSendDone(r)

SpecCmd == Init /\ [][NextCmd]_vars

\* One Scraper with an explicit initialize(), its methods called in any
\* order, a call also while earlier calls are in flight.
InitScraper ==
    /\ source = <<>>
    /\ store = <<>>
    /\ runs = [r \in Slots |-> IdleRun]
    /\ announced = {}
    /\ proc = "running"
    /\ last = NoLast
    /\ rec = NoRec
    /\ cmd = NoCmd
    /\ http = NoResponse
    /\ scraper = NewScraper
    /\ old = NoOld

NextScraper ==
    \/ Initialize
    \/ \E k \in Calls : LaunchDone(k)
    \/ ScrapeCall
    \/ \E k \in Calls : NewPageDone(k)
    \/ \E k \in Calls : GotoDone(k)
    \/ \E k \in Calls : WaitForSelectorDone(k)
    \/ \E k \in Calls : EvaluateDone(k)
    \/ \E k \in Calls : PageCloseDone(k)
    \/ CloseCall
    \/ \E k \in Calls : BrowserCloseDone(k)

SpecScraper == InitScraper /\ [][NextScraper]_vars

\* The interaction-based Bot: checks started at any time, also while
\* earlier checks are in flight, on a tour page that stays as it is, over a
\* table an earlier process may have filled.
InitOld ==
    /\ source = <<>>
    /\ store = <<>>
    /\ runs = [r \in Slots |-> IdleRun]
    /\ announced = {}
    /\ proc = "running"
    /\ last = NoLast
    /\ rec = NoRec
    /\ cmd = NoCmd
    /\ http = NoResponse
    /\ scraper = NoScraper
    /\ \E listing \in PageContents : \E rows \in OldTables :
         old = [NewOld EXCEPT !.listing = listing, !.rows = rows]

NextOld ==
    \/ OldCheckTours
    \/ \E c \in OldSlots : OldReplyDone(c)
    \/ \E c \in OldSlots : OldLaunchDone(c)
    \/ \E c \in OldSlots : OldNewPageDone(c)
    \/ \E c \in OldSlots : OldGotoDone(c)
    \/ \E c \in OldSlots : OldEvaluateDone(c)
    \/ \E c \in OldSlots : OldPageCloseDone(c)
    \/ \E c \in OldSlots : OldLoadDone(c)
    \/ \E c \in OldSlots : OldSaveDone(c)
    \/ \E c \in OldSlots : OldChannelDone(c)
    \/ \E c \in OldSlots : OldSendOne(c)
    \/ \E c \in OldSlots : OldFollowUpDone(c)
    \/ \E c \in OldSlots : OldCatch(c)
    \/ \E c \in OldSlots : OldFinally(c)

SpecOld == InitOld /\ [][NextOld]_vars

\* The filter-and-sort alone: scrapedConcerts is what scrapeTourDates returns
\* for a response, savedConcerts the rows getConcerts returns for the
\* concerts of earlier tour events once saved, for every response and every
\* set of earlier events within the bounds.
InitRec ==
    /\ source = <<>>
    /\ store = <<>>
    /\ runs = [r \in Slots |-> IdleRun]
    /\ announced = {}
    /\ proc = "running"
    /\ last = NoLast
    /\ \E included \in IncludedArrays : \E earlier \in EarlierEvents :
         rec = [pc |-> "input", included |-> included, earlier |-> earlier,
                scraped |-> ScrapeTourDates(TRUE, included),
                saved |-> {Record(ToConcert(event)) : event \in earlier},
                new |-> <<>>]
    /\ cmd = NoCmd
    /\ http = NoResponse
    /\ scraper = NoScraper
    /\ old = NoOld

NextRec == Reconcile

SpecRec == InitRec /\ [][NextRec]_vars

\* ------------------------------------------------------------- properties
\* A step in which run r announces concert c: a successful channel.send.
Announces(r, c) ==
    /\ runs[r].pc = "post"
    /\ runs'[r].idx = runs[r].idx + 1
    /\ runs[r].new[runs[r].idx] = c

\* The sends postConcerts has attempted once the run has reached finally.
Attempts(run) ==
    IF run.status.kind = "found" THEN Len(run.new)
    ELSE IF run.idx >= 1 THEN run.idx ELSE 0

\* C1: over runs executed one after another, no concert is announced to the
\* channel by the check workflow a second time.
C1_NeverAnnouncedTwice ==
    [][\A r \in Slots : \A c \in announced : ~Announces(r, c)]_vars

\* C2: a run that follows a run in which no step failed, with the source
\* unchanged since that run started, ends with "no new concerts", having
\* persisted nothing and announced nothing.
C2_SecondRunFindsNothing ==
    \A r \in Slots :
        (runs[r].pc = "finally" /\ last.outcome \in {"found", "none"} /\ ~last.faulty)
            => /\ runs[r].status = NoneMsg
               /\ ~Saved(runs[r])
               /\ Posted(runs[r]) = {}

\* C3: at most one tour-check execution is in flight at any time.
C3_AtMostOneInFlight == Cardinality(InFlight) <= 1

\* C4: a check never announces a concert that a check overlapping it in time
\* has also announced.
C4_OverlappingChecksAnnounceOnce ==
    \A r \in Slots : Posted(runs[r]) \cap runs[r].peerPosted = {}

\* The concerts call c of the interaction-based checkTours has announced
\* so far.
OldPosted(c) == {old.check[c].new[i] : i \in 1 .. (old.check[c].idx - 1)}

\* C5: persistence precedes notification: every concert a run in flight has
\* announced is a row of the store, and every concert ever announced by the
\* check workflow is a row of the store; likewise for the checkTours of the
\* interaction-based bot and the table its DatabaseService inserts into.
C5_AnnouncedAreStored ==
    /\ \A r \in InFlight : Posted(runs[r]) \subseteq Range(store)
    /\ announced \subseteq Range(store)
    /\ old # NoOld => \A c \in OldInFlight : OldPosted(c) \subseteq Range(old.rows)

\* C6: a concert the previous run persisted but did not announce is not
\* classified as new by the next run when the source is unchanged.
C6_PersistedUnannouncedNotNew ==
    \A r \in Slots :
        runs[r].pc \in {"save", "channel", "post", "finally"}
            => Range(runs[r].new) \cap last.unposted = {}

\* C7: once a run starts announcing its batch, a send is attempted for every
\* concert of the batch, whatever the outcome of the earlier sends.
C7_EveryDeliveryAttempted ==
    \A r \in Slots :
        (runs[r].pc = "finally" /\ runs[r].idx >= 1)
            => Attempts(runs[r]) = Len(runs[r].new)

\* C8: a run in which the store read or the store insert failed ends Failed,
\* having announced nothing and written nothing to the store.
C8_StoreFailureAbortsRun ==
    \A r \in Slots :
        (runs[r].pc = "finally" /\ (runs[r].loadFailed \/ runs[r].saveFailed))
            => /\ runs[r].status = ErrorMsg
               /\ Posted(runs[r]) = {}
               /\ ~Saved(runs[r])

\* C9: a run whose fetch failed ends with the Failed outcome.
C9_FetchFailureIsFailed ==
    \A r \in Slots :
        (runs[r].pc = "finally" /\ runs[r].fetchFailed) => runs[r].status = ErrorMsg

\* C10: no failure inside a tour check ends the process, and whenever no check
\* is in flight the scheduled tick can start a new run.
C10_FailuresAreNotFatal ==
    /\ proc = "running"
    /\ (InFlight = {} => ENABLED TickIdle)

C10_Witness ==
    \E r \in Slots :
        /\ last.outcome = "error"
        /\ runs[r].trigger = "scheduled"
        /\ runs[r].pc = "scrape"

\* ------------------------------------------------------------- identity
\* A venue name without surrounding whitespace and in one letter case.
Normalized(v) == IF v = " fillmore" THEN "Fillmore" ELSE v

\* Lexicographic rank of the venue names.
VenueRank(v) ==
    CASE v = NoVenue -> 0
      [] v = " fillmore" -> 1
      [] v = "9:30 Club" -> 2
      [] v = "Fillmore" -> 3

HasId(c) == c.id # NoId

\* A record with a venue and a readable date.
WellFormed(c) == c.venue \notin {NoVenue, NullVenue} /\ ~IsNaN(c.date)

\* The matching rule: the same opaque id when both records carry one,
\* otherwise the same normalized venue on the same day of the reference
\* timezone (UTC).
SameIdentity(a, b) ==
    IF HasId(a) /\ HasId(b)
    THEN a.id = b.id
    ELSE /\ Normalized(a.venue) = Normalized(b.venue)
         /\ UTCDay(a.date) = UTCDay(b.date)

Known(c) == \E k \in rec.saved : SameIdentity(c, k)

AllWellFormed == \A c \in Range(rec.scraped) \cup rec.saved : WellFormed(c)

\* C11: the new events are exactly the fetched records whose identity matches
\* no known record: every record of the result is a fetched record that
\* matches no known record, and every fetched identity that matches no known
\* record is in the result (stated for batches of well-formed records).
C11_NewAreExactlyUnknown ==
    (rec.pc = "done" /\ AllWellFormed) =>
        /\ \A c \in Range(rec.new) : c \in Range(rec.scraped) /\ ~Known(c)
        /\ \A f \in Range(rec.scraped) :
              ~Known(f) => \E c \in Range(rec.new) : SameIdentity(c, f)

\* C12: reconciling a fetched batch equal to the known set (the known set
\* holds the rows of exactly the fetched records) against that known set
\* yields the empty result.
C12_KnownAgainstItselfIsEmpty ==
    (rec.pc = "done" /\ rec.saved = {Record(c) : c \in Range(rec.scraped)})
        => rec.new = <<>>

\* C13: of a fetched batch that shares no identity with the known set, every
\* record with a venue and a readable date is returned, and these records
\* are returned in ascending date order.
C13_DisjointBatchReturnedSorted ==
    (rec.pc = "done" /\ \A f \in Range(rec.scraped) : WellFormed(f) => ~Known(f)) =>
        /\ \A f \in Range(rec.scraped) : WellFormed(f) => f \in Range(rec.new)
        /\ \A i, j \in 1 .. Len(rec.new) :
              (i < j /\ WellFormed(rec.new[i]) /\ WellFormed(rec.new[j]))
                  => GetTime(rec.new[i].date) <= GetTime(rec.new[j].date)

\* C14: idempotence: reconciling the fetched batch against the known set
\* joined with the result of the first reconciliation, as rows of the table,
\* yields the empty result.
C14_ReconcileIdempotent ==
    rec.pc = "done" =>
        SortByDate(NewConcerts(rec.scraped,
                               rec.saved \cup {Record(c) : c \in Range(rec.new)})) = <<>>

\* C15: a batch [e, e'] of two different records with the same identity,
\* reconciled against an empty known set, yields exactly the first one.
C15_DuplicatesCoalesced ==
    (/\ rec.pc = "done" /\ rec.saved = {} /\ Len(rec.scraped) = 2
     /\ AllWellFormed
     /\ rec.scraped[1] # rec.scraped[2]
     /\ SameIdentity(rec.scraped[1], rec.scraped[2]))
        => rec.new = <<rec.scraped[1]>>

\* C16: a fetched record and a known record without opaque ids match (the
\* fetched one is not new) whenever their venues are equal ignoring letter
\* case and surrounding whitespace and their dates fall on the same day of the
\* reference timezone, whatever the time of day or the raw offset.
C16_CompositeKeyFallback ==
    rec.pc = "done" =>
        \A f \in Range(rec.scraped) : \A k \in rec.saved :
            (/\ ~HasId(f) /\ ~HasId(k) /\ WellFormed(f) /\ WellFormed(k)
             /\ Normalized(f.venue) = Normalized(k.venue)
             /\ UTCDay(f.date) = UTCDay(k.date))
                => f \notin Range(rec.new)

\* C17: the record fetched for a tour event that has the id of a tour event
\* saved earlier is never new, even when its venue or date differs from the
\* saved one; and the venue-and-day rule is not applied between two tour
\* events that both have an id (stated for well-formed records).
C17_OpaqueIdMatching ==
    (rec.pc = "done" /\ AllWellFormed) =>
        \A f \in Range(rec.included) :
            /\ (\E k \in rec.earlier : k.id = f.id) => ToConcert(f) \notin Range(rec.new)
            /\ (\A k \in rec.earlier : k.id # f.id) => ToConcert(f) \in Range(rec.new)

\* C18: the new events are in ascending date order, records with the same
\* date in lexicographic order of their venue names, whatever the order of
\* the listing (stated for batches of well-formed records).
C18_OrderedByDateThenVenue ==
    (rec.pc = "done" /\ AllWellFormed) =>
        \A i, j \in 1 .. Len(rec.new) :
            i < j =>
                \/ GetTime(rec.new[i].date) < GetTime(rec.new[j].date)
                \/ /\ GetTime(rec.new[i].date) = GetTime(rec.new[j].date)
                   /\ VenueRank(rec.new[i].venue) <= VenueRank(rec.new[j].venue)

\* C19: a fetched record without a venue or without a readable date is not in
\* the output, and the other records are reconciled as if it were absent.
C19_MalformedExcluded ==
    rec.pc = "done" =>
        /\ \A c \in Range(rec.new) : WellFormed(c)
        /\ Range(rec.new) =
              Range(NewConcerts(SelectSeq(rec.scraped, WellFormed), rec.saved))

\* C20: the store never holds two rows with the same identity.
C20_StoreIdentitiesUnique ==
    \A i, j \in 1 .. Len(store) : i # j => ~SameIdentity(store[i], store[j])

\* ------------------------------------------------------------- store and outcomes
\* C21: a record in the store is never changed or removed: every row of the
\* store is still a row, with the same fields, after every step.
C21_StoreOnlyGrows ==
    [][/\ Len(store') >= Len(store)
       /\ \A i \in 1 .. Len(store) : store'[i] = store[i]]_vars

\* A run has saved its batch onto a table that held rows already.
C21_Witness ==
    \E r \in Slots :
        /\ runs[r].pc = "channel"
        /\ Len(store) > Len(runs[r].new)

\* A run is saving a batch that holds the identity of a stored row.
SavingConflict(r) ==
    /\ runs[r].pc = "save"
    /\ \E c \in Range(runs[r].new) : \E row \in Range(store) : SameIdentity(c, row)

\* C22: saving a batch in which some identities are already stored succeeds:
\* with the store reachable the call does not throw, and when it has returned
\* the run goes on, every record of the batch is a row, the rows of other
\* identities are kept, and there is one row per identity.
C22_ConflictingBatchSaved ==
    [][\A r \in Slots :
          SavingConflict(r) =>
            /\ ~SaveConcerts(TRUE, store, runs[r].new).threw
            /\ (runs'[r].pc # "save" /\ ~runs'[r].saveFailed) =>
                  /\ runs'[r].pc = "channel"
                  /\ Range(runs[r].new) \subseteq Range(store')
                  /\ Range(store) \subseteq Range(store')
                  /\ \A i, j \in 1 .. Len(store') :
                        i # j => ~SameIdentity(store'[i], store'[j])]_vars

\* C27: a run ends with exactly one of the three outcomes; "found n" is the
\* outcome only when n is the number of concerts classified as new and all
\* of them were saved and announced, never after a failed save or send.
C27_OutcomeMatchesRun ==
    \A r \in Slots :
        runs[r].pc = "finally" =>
            /\ runs[r].status \in {NoneMsg, ErrorMsg, FoundMsg(Len(runs[r].new))}
            /\ runs[r].status.kind = "found" =>
                  /\ Len(runs[r].new) > 0
                  /\ ~runs[r].saveFailed
                  /\ Range(runs[r].new) \subseteq Range(store)
                  /\ Posted(runs[r]) = Range(runs[r].new)
                  /\ Range(runs[r].new) \subseteq announced

\* A run ends "found 2" with both concerts announced.
C27_Witness ==
    \E r \in Slots :
        /\ runs[r].pc = "finally"
        /\ runs[r].status = FoundMsg(2)
        /\ Cardinality(Posted(runs[r])) = 2

\* C28: a run that finds no new concert leaves the store unchanged and sends
\* no announcement: a run is at the save or the announcements only with a
\* non-empty array of new concerts, and the store and the announcements
\* change only in a step of such a run.
C28_NothingNewNoEffect ==
    [][/\ \A r \in Slots :
             runs[r].pc \in {"save", "channel", "post"} => runs[r].new # <<>>
       /\ (store' # store \/ announced' # announced) =>
             \E r \in Slots :
                 /\ runs[r].pc \in {"save", "post"}
                 /\ runs[r].new # <<>>
                 /\ runs'[r] # runs[r]]_vars

\* A run over a non-empty listing ends "none" with the store read.
C28_Witness ==
    \E r \in Slots :
        /\ runs[r].pc = "finally"
        /\ runs[r].status = NoneMsg
        /\ ~runs[r].fetchFailed /\ ~runs[r].loadFailed
        /\ store # <<>> /\ source # <<>>

\* C29: with the tick firing and no step failing, the concert of every tour
\* event that stays listed at the source is eventually stored and announced.
C29_ListedEventuallyAnnounced ==
    \A event \in TourEvent :
        <>[](event \in Range(source))
            => <>(/\ ToConcert(event) \in Range(store)
                  /\ ToConcert(event) \in announced)

\* A listed tour event whose concert is stored and announced.
C29_Witness ==
    \E event \in Range(source) :
        /\ ToConcert(event) \in Range(store)
        /\ ToConcert(event) \in announced

\* ------------------------------------------------------------- commands
\* C23: no manually triggered command performs its action for a requester
\* without the required role: the POST of a /scrape starts a manual check
\* only for a requester holding the role, and /postbydate queries the table
\* and re-posts only for such a requester.
C23_CommandsNeedRole ==
    \A i \in Interactions :
        LET c == TheCmd(i)
        IN  /\ (c.job = "handled" /\ c.channelId # NoChannel) => c.admin
            /\ (c.name = "postbydate" /\ (c.queried \/ c.posted > 0)) => c.admin

\* C24: a /status answered after a check ended with outcome O, and before the
\* next one ends, reports O.
C24_StatusReportsLastRun ==
    \A i \in Interactions :
        LET c == TheCmd(i)
        IN  (c.name = "status" /\ c.acks = 1 /\ c.lastAt # "empty") => c.text = c.lastAt

\* C25: the status message a manual check sends to the channel of its
\* command describes the outcome of the check, and is the failure text when
\* the fetch, the load, the save or an announcement of the check failed.
C25_ManualRunReportsOutcome ==
    last.reported \notin {"n/a", "unsent"}
        => /\ last.reported = last.outcome
           /\ last.faulty => last.reported = "error"

\* The rows of the table whose date falls on the calendar day of the
\* interaction.
OnDay(rows, day) ==
    SelectSeq(rows, LAMBDA row : ~IsNaN(row.date) /\ UTCDay(row.date) = day)

\* What C26 says of the /postbydate c, with storeAt the table its query read.
ReplayedDay(c) ==
    c.name = "postbydate" =>
        /\ SubSeq(c.toPost, 1, c.posted) = SubSeq(OnDay(c.storeAt, c.date), 1, c.posted)
        /\ (~c.admin \/ c.date = MalformedDate)
              => (~c.queried /\ c.posted = 0 /\ c.unsent = 0)
        /\ (/\ c.pc = "done" /\ c.admin /\ c.date # MalformedDate
            /\ c.failed \cap {"member", "reply", "query", "channel"} = {})
              => c.posted + c.unsent = Len(OnDay(c.storeAt, c.date))

\* C26: a /postbydate of an admin with a well-formed date, once handled with
\* the role check, its first reply, the query and the channel lookup
\* successful, has sent (or
\* tried to send) every concert of that day that was stored when it queried
\* the table, and has sent no other concert; for a requester without the
\* admin role or a malformed date the table is not queried and nothing is
\* sent; and no step of a command changes the table.
C26_ReplayAnnouncesDay ==
    [][/\ cmd' # cmd => store' = store
       /\ \A i \in 0 .. Len(cmd'.earlier) :
            ReplayedDay(IF i = 0 THEN cmd' ELSE cmd'.earlier[i])
      ]_vars

\* C30 as stated: over every path of the command handler and of the catch of
\* the listener, reply is called at most once on an interaction, and no
\* message is attempted once a call was rejected with code 10062.
C30_ReplyCalledOnce ==
    \A i \in Interactions :
        /\ TheCmd(i).replyCalls <= 1
        /\ TheCmd(i).lateCalls = 0

\* C30, amended: reply is never called on an interaction already replied to
\* and at most one reply resolves; a second reply is called only by the catch
\* of the listener, after the first one was rejected with an error other than
\* 10062; every followUp comes after the reply that resolved; and when the
\* error reaching the catch of the listener is 10062 the catch sends nothing.
C30_ReplyOnlyWhileUnreplied ==
    \A i \in Interactions :
        LET c == TheCmd(i)
        IN  /\ c.rereplies = 0
            /\ c.acks <= 1
            /\ c.replyCalls <= 2
            /\ c.replyCalls = 2 =>
                  (c.handlerCalls = 1 /\ c.thrown = "other" /\ "reply" \in c.failed)
            /\ "member" \in c.failed => (c.replyCalls = c.handlerCalls /\ c.followUps = 0)
            /\ c.followUps > 0 => c.acks = 1
            /\ c.thrown = "10062" => c.handlerCalls = 0

\* A /postbydate that replied, then failed twice in its followUps, and whose
\* error reached the catch of the listener, which answered by followUp, and
\* after it a /postbydate whose role check threw before any reply and which
\* the catch of the listener answered with the only reply.
C30_Witness ==
    /\ Len(cmd.earlier) = 1
    /\ cmd.pc = "done"
    /\ "member" \in cmd.failed
    /\ cmd.replyCalls = 1
    /\ cmd.acks = 1
    /\ cmd.handlerCalls = 1
    /\ cmd.earlier[1].pc = "done"
    /\ cmd.earlier[1].handlerCalls = 1
    /\ cmd.earlier[1].replyCalls = 1
    /\ cmd.earlier[1].acks = 1
    /\ cmd.earlier[1].followUps = 3

\* ------------------------------------------------------------- /scrape-job
\* The runs a step starts.
Started == {r \in Slots : runs[r].pc = "idle" /\ runs'[r].pc # "idle"}

\* C31: a POST to /scrape-job without a channelId is answered 400 and starts
\* no check; a manual check is started only by a POST answered 202, which
\* starts exactly one check, bound to the channelId of the request and still
\* at its first await when the response is sent; and no step of a manual
\* check takes the process down.
C31_ScrapeJobAnswered ==
    [][/\ \A r \in Started :
            runs'[r].trigger = "manual"
                => /\ runs'[r].channelId # NoChannel
                   /\ http' = Respond(Accepted, runs'[r].channelId)
                   /\ runs'[r].pc = "scrape"
                   /\ Started = {r}
       /\ http' # http
            => \/ /\ http' = Respond(BadRequest, NoChannel)
                  /\ runs' = runs
               \/ /\ http'.code = Accepted
                  /\ \E r \in Started : /\ runs'[r].trigger = "manual"
                                         /\ runs'[r].channelId = http'.channelId
       /\ \A r \in Slots :
            (runs[r].trigger = "manual" /\ runs'[r] # runs[r]) => proc' = "running"
      ]_vars

\* A manual check started by an accepted POST has ended in the catch of
\* checkTours while a later POST without channelId was answered 400.
C31_Witness ==
    /\ http = Respond(BadRequest, NoChannel)
    /\ \E r \in Slots : /\ runs[r].trigger = "manual"
                         /\ runs[r].pc = "finally"
                         /\ runs[r].status = ErrorMsg

\* ------------------------------------------------------------- browser scraper
\* C32: the Scraper with an explicit initialize() holds at most one browser;
\* initialize launches only while none is held; scrapeTourDates called with
\* no browser held ends with an error and opens no page; and once close has
\* returned no browser is held.
C32_ExplicitInitLifecycle ==
    /\ Cardinality(scraper.live) <= 1
    /\ scraper.live = IF scraper.browser = NoBrowser THEN {} ELSE {scraper.browser}
    /\ \A k \in Calls :
          /\ scraper.pending[k].pc = "launching" => scraper.pending[k].held = NoBrowser
          /\ scraper.pending[k].call = "scrapeTourDates" => scraper.pending[k].held # NoBrowser
    /\ (scraper.ended.call = "initialize" /\ scraper.ended.held # NoBrowser)
         => scraper.browser = scraper.ended.held
    /\ (scraper.ended.call = "scrapeTourDates" /\ scraper.ended.held = NoBrowser)
         => (scraper.ended.result = "error" /\ scraper.ended.page = "none")
    /\ (scraper.ended.call = "close" /\ scraper.ended.result = "ok")
         => scraper.browser = NoBrowser

\* C33: when a scrapeTourDates call has ended, by returning concerts, by
\* returning [] or by throwing, the page it opened is closed.
C33_PagesClosedOnExit ==
    scraper.ended.call = "scrapeTourDates" => scraper.ended.page # "open"

\* ------------------------------------------------------------- older bot
\* Call c of checkTours has computed newConcerts.
OldFiltered(c) == old.check[c].pc \in {"save", "channel", "post"}

\* C34: in the interaction-based checkTours no concert that is among the
\* saved concerts is classified as new, and a check that follows a check with
\* no failing step, the tour page unchanged, saves and posts nothing.
C34_SavedNotNewAgain ==
    \A c \in OldSlots :
        LET ck == old.check[c]
        IN  /\ OldFiltered(c) =>
                 \A i \in 1 .. Len(ck.new) : \A j \in 1 .. Len(ck.saved) :
                     ck.saved[j] # ck.new[i]
            /\ ck.afterClean => (ck.new = <<>> /\ ck.idx = 0)

\* C35: every page the lazily initialising scrapeTourDates opens is opened
\* on a browser that is open.
C35_ScrapeOnOpenBrowser ==
    /\ \A c \in OldSlots : old.check[c].pc = "newPage" => old.check[c].on \in old.live
    /\ ~old.usedClosed

====
